---- MODULE Spec2Model ----
(***************************************************************************)
(* plot_results.py: the report generator of sqlbench.  main() checks the   *)
(* two input paths, creates the output directory, and runs the summary     *)
(* and the detail chart operations, each of which saves one PNG per         *)
(* workload.  A table is [cols, rows]; a row is a record keyed by column.   *)
(* A chart is the record of what the operation hands to matplotlib.         *)
(***************************************************************************)
EXTENDS Integers, Sequences, FiniteSets, TLC

VARIABLES
    pc,             \* position of main(): the operation that runs next
    summaryIsFile,  \* os.path.isfile(args.summary)
    detailIsFile,   \* os.path.isfile(args.detail)
    dirMade,        \* os.makedirs(args.outdir) has been called
    sumDf,          \* df of generate_summary_plots, NoDf outside its scope
    detDf,          \* df of generate_detail_plots, NoDf outside its scope
    mi,             \* index of the next entry of the metrics list in scope
    files,          \* names of the files written under the output directory
    saves,          \* number of fig.savefig calls so far
    rendered,       \* the charts saved by the operation that ran last
    stderr,         \* what was written to the error stream
    exitStatus      \* <<status>> once the process has exited, <<>> while it runs

vars == <<pc, summaryIsFile, detailIsFile, dirMade, sumDf, detDf, mi, files,
          saves, rendered, stderr, exitStatus>>

\* Number of rows of an input table.
MaxRows == 2

NoDf == [cols |-> {}, rows |-> {}, loaded |-> FALSE]

(***************************************************************************)
(* Configuration tables of the program.                                    *)
(***************************************************************************)
ENGINE_ORDER == <<"InnoDB", "TidesDB">>

SummaryMetrics ==
    << [metric |-> "tps",            ylabel |-> "Transactions / sec", log_scale |-> TRUE],
       [metric |-> "qps",            ylabel |-> "Queries / sec",      log_scale |-> TRUE],
       [metric |-> "reads_per_sec",  ylabel |-> "Reads / sec",        log_scale |-> TRUE],
       [metric |-> "writes_per_sec", ylabel |-> "Writes / sec",       log_scale |-> TRUE],
       [metric |-> "latency_avg_ms", ylabel |-> "Avg Latency (ms)",   log_scale |-> FALSE],
       [metric |-> "latency_p95_ms", ylabel |-> "P95 Latency (ms)",   log_scale |-> FALSE],
       [metric |-> "latency_max_ms", ylabel |-> "Max Latency (ms)",   log_scale |-> FALSE] >>

DetailMetrics ==
    << [metric |-> "tps",            ylabel |-> "TPS"],
       [metric |-> "qps",            ylabel |-> "QPS"],
       [metric |-> "latency_avg_ms", ylabel |-> "Avg Latency (ms)"],
       [metric |-> "latency_p95_ms", ylabel |-> "P95 Latency (ms)"] >>

lat_cols == <<"latency_min_ms", "latency_avg_ms", "latency_p95_ms", "latency_max_ms">>

(***************************************************************************)
(* The input tables the model reads.  Workload names are listed in         *)
(* ascending string order; engines are the two the program knows; a        *)
(* summary table has at most one row per (workload, engine, threads).      *)
(***************************************************************************)
WorkloadNames == <<"read_only", "write_only">>
ThreadCounts == {1, 4}
Range(s) == {s[i] : i \in DOMAIN s}
EngineNames == Range(ENGINE_ORDER)

SummaryMetricNames == {SummaryMetrics[i].metric : i \in DOMAIN SummaryMetrics}
DetailMetricNames == {DetailMetrics[i].metric : i \in DOMAIN DetailMetrics}

SummaryColumns ==
    {"workload", "engine", "threads", "latency_min_ms",
     "data_size_after_prepare_mb", "data_size_after_run_mb"} \cup SummaryMetricNames

DetailColumns == {"workload", "engine", "threads", "time_s"} \cup DetailMetricNames

\* Measurements of one summary row: an idle run, three read-only runs whose
\* throughput differs by a factor of 100 and of 101, and a write-only run.
SummaryProfiles ==
    { [tps |-> 0, qps |-> 0, reads_per_sec |-> 0, writes_per_sec |-> 0,
       latency_min_ms |-> 0, latency_avg_ms |-> 0, latency_p95_ms |-> 0, latency_max_ms |-> 0,
       data_size_after_prepare_mb |-> 2, data_size_after_run_mb |-> 2],
      [tps |-> 1, qps |-> 20, reads_per_sec |-> 20, writes_per_sec |-> 0,
       latency_min_ms |-> 1, latency_avg_ms |-> 2, latency_p95_ms |-> 3, latency_max_ms |-> 4,
       data_size_after_prepare_mb |-> 2, data_size_after_run_mb |-> 1],
      [tps |-> 100, qps |-> 2000, reads_per_sec |-> 2000, writes_per_sec |-> 0,
       latency_min_ms |-> 1, latency_avg_ms |-> 2, latency_p95_ms |-> 3, latency_max_ms |-> 4,
       data_size_after_prepare_mb |-> 2, data_size_after_run_mb |-> 2],
      [tps |-> 101, qps |-> 2020, reads_per_sec |-> 2020, writes_per_sec |-> 0,
       latency_min_ms |-> 1, latency_avg_ms |-> 9, latency_p95_ms |-> 40, latency_max_ms |-> 500,
       data_size_after_prepare_mb |-> 3, data_size_after_run_mb |-> 3],
      [tps |-> 7, qps |-> 7, reads_per_sec |-> 0, writes_per_sec |-> 7,
       latency_min_ms |-> 1, latency_avg_ms |-> 2, latency_p95_ms |-> 3, latency_max_ms |-> 4,
       data_size_after_prepare_mb |-> 2, data_size_after_run_mb |-> 5] }

SummaryRowUniverse ==
    { [workload |-> w, engine |-> e, threads |-> t] @@ p :
        w \in Range(WorkloadNames), e \in EngineNames, t \in ThreadCounts,
        p \in SummaryProfiles }

SummaryKey(r) == <<r.workload, r.engine, r.threads>>

\* Measurements of one detail row (one time sample).
DetailProfiles ==
    { [time_s |-> 1, tps |-> 0, qps |-> 0, latency_avg_ms |-> 2, latency_p95_ms |-> 0],
      [time_s |-> 2, tps |-> 6, qps |-> 60, latency_avg_ms |-> 3, latency_p95_ms |-> 4] }

DetailRowUniverse ==
    { [workload |-> w, engine |-> e, threads |-> t] @@ p :
        w \in Range(WorkloadNames), e \in EngineNames, t \in ThreadCounts,
        p \in DetailProfiles }

DetailKey(r) == <<r.workload, r.engine, r.threads, r.time_s>>

RECURSIVE SetsUpTo(_, _)
SetsUpTo(R, n) ==
    IF n = 0 THEN {{}}
    ELSE LET S == SetsUpTo(R, n - 1) IN S \cup {s \cup {r} : s \in S, r \in R}

WithoutColumns(r, absent) == [c \in (DOMAIN r) \ absent |-> r[c]]

\* What pd.read_csv returns for a file whose header lacks the columns `absent`.
Table(columns, rowset, absent) ==
    [cols |-> columns \ absent,
     rows |-> {WithoutColumns(r, absent) : r \in rowset},
     loaded |-> TRUE]

AtMostOne(S) == {{}} \cup {{c} : c \in S}

SummaryTables ==
    { Table(SummaryColumns, s, a) :
        s \in {s \in SetsUpTo(SummaryRowUniverse, MaxRows) :
                 \A r1, r2 \in s : SummaryKey(r1) = SummaryKey(r2) => r1 = r2},
        a \in AtMostOne(SummaryMetricNames) }

DetailTables ==
    { Table(DetailColumns, s, a) :
        s \in {s \in SetsUpTo(DetailRowUniverse, MaxRows) :
                 \A r1, r2 \in s : DetailKey(r1) = DetailKey(r2) => r1 = r2},
        a \in AtMostOne(DetailMetricNames) }

(***************************************************************************)
(* pandas and builtins, as far as the program uses them.                   *)
(***************************************************************************)
\* df[col].unique()
unique(df, col) == {r[col] : r \in df.rows}

\* df[df[col] == v]: a new frame holding the matching rows
rows_where(df, col, v) == [df EXCEPT !.rows = {r \in @ : r[col] = v}]

\* sorted(...) of workload names
sorted_workloads(S) == SelectSeq(WorkloadNames, LAMBDA w : w \in S)

Min(S) == CHOOSE x \in S : \A y \in S : x <= y
Max(S) == CHOOSE x \in S : \A y \in S : x >= y

\* sorted(...) of numbers
RECURSIVE sorted(_)
sorted(S) == IF S = {} THEN <<>> ELSE <<Min(S)>> \o sorted(S \ {Min(S)})

RECURSIVE SumOver(_, _)
SumOver(rows, col) ==
    IF rows = {} THEN 0
    ELSE LET r == CHOOSE r \in rows : TRUE IN r[col] + SumOver(rows \ {r}, col)

\* df[col].sum(); the caller has looked the column up
column_sum(df, col) == SumOver(df.rows, col)

\* df[col] raises KeyError when the table has no such column
lookup_raises(df, col) == col \notin df.cols

\* [e for e in ENGINE_ORDER if e in sub["engine"].unique()]
engines_of(sub) == SelectSeq(ENGINE_ORDER, LAMBDA e : e \in unique(sub, "engine"))

(***************************************************************************)
(* Helpers of the program.                                                 *)
(***************************************************************************)
\* _save: the path written, relative to the output directory
_save(name) == name \o ".png"

\* _thread_label: a copy of the frame whose threads column is cast to int;
\* read_csv yields the thread counts as integers, which astype(int) keeps
_thread_label(df) == [df EXCEPT !.rows = {[r EXCEPT !.threads = r.threads] : r \in @}]

\* plt.subplots(1, ncols): one Axes object when ncols is 1, an array otherwise
subplots(ncols) == [bare |-> ncols = 1, ncols |-> ncols]

\* if len(thread_vals) == 1: axes = [axes]
axes_list(axes, thread_vals) ==
    IF Len(thread_vals) = 1 THEN [axes EXCEPT !.bare = FALSE] ELSE axes

\* zip(axes, thread_vals) raises TypeError over a bare Axes object
zip_raises(axes) == axes.bare

\* The row of a frame that holds one row: esub[c].values[0] reads it
first_row(sub) == CHOOSE r \in sub.rows : TRUE

\* The charts of one operation: one per workload, in sorted order, up to
\* the first workload whose chart raises.
per_workload(charts, bad) ==
    LET n == IF bad = {} THEN Len(charts) ELSE Min(bad) - 1
    IN [charts |-> SubSeq(charts, 1, n), raised |-> bad # {}]

workloads_of(df) == sorted_workloads(unique(df, "workload"))

(***************************************************************************)
(* Summary charts.                                                         *)
(***************************************************************************)
\* sns.barplot(data=sub, x="threads", y=col, hue="engine", hue_order=engines):
\* one bar per x category and hue level that has rows, as high as their mean
barplot(sub, col, engines) ==
    { [threads |-> t, engine |-> e,
       height |-> LET rs == {r \in sub.rows : r.threads = t /\ r.engine = e}
                  IN SumOver(rs, col) \div Cardinality(rs)] :
        <<t, e>> \in {te \in unique(sub, "threads") \X Range(engines) :
                        \E r \in sub.rows : r.threads = te[1] /\ r.engine = te[2]} }

\* The ratio test with >= in place of >
use_log_scale_at_100(sub, metric, log_scale) ==
    /\ log_scale
    /\ LET vals == unique(sub, metric)
           floor == IF Min(vals) > 1 THEN Min(vals) ELSE 1
       IN Max(vals) >= 100 * floor

\* log_scale and sub[metric].max() / max(sub[metric].min(), 1) > 100;
\* the divisor is at least 1, so the quotient exceeds 100 iff max > 100 * divisor
use_log_scale(sub, metric, log_scale) ==
    /\ log_scale
    /\ LET vals == unique(sub, metric)
           floor == IF Min(vals) > 1 THEN Min(vals) ELSE 1
       IN Max(vals) > 100 * floor

\* The chart operation working on the whole table instead of wl's rows
partition_unfiltered(df, wl) == _thread_label(df)

\* The rows of workload wl that a chart operation works on
partition(df, wl) == _thread_label(rows_where(df, "workload", wl))

summary_bar_chart(df, metric, log_scale, wl) ==
    LET sub == partition(df, wl)
        engines == engines_of(sub)
    IN [name |-> _save("summary_bar_" \o metric \o "_" \o wl),
        kind |-> "summary_bar", metric |-> metric, workload |-> wl,
        hue_order |-> engines,
        bars |-> barplot(sub, metric, engines),
        yscale |-> IF use_log_scale(sub, metric, log_scale) THEN "log" ELSE "linear"]

plot_summary_bar(df, metric, log_scale) ==
    LET wls == workloads_of(df)
    IN per_workload([i \in DOMAIN wls |-> summary_bar_chart(df, metric, log_scale, wls[i])], {})

\* d.groupby("threads")[metric].mean(): index in ascending order
mean_line(d, metric) ==
    LET idx == sorted(unique(d, "threads"))
    IN [i \in DOMAIN idx |->
          LET rs == {r \in d.rows : r.threads = idx[i]}
          IN <<idx[i], SumOver(rs, metric) \div Cardinality(rs)>>]

\* The scatter chart saved under the bar chart's name
summary_scatter_chart_bar_name(df, metric, wl) ==
    [name |-> _save("summary_bar_" \o metric \o "_" \o wl),
     kind |-> "summary_scatter", metric |-> metric, workload |-> wl,
     series |-> <<>>]

summary_scatter_chart(df, metric, wl) ==
    LET sub == partition(df, wl)
        engines == engines_of(sub)
    IN [name |-> _save("summary_scatter_" \o metric \o "_" \o wl),
        kind |-> "summary_scatter", metric |-> metric, workload |-> wl,
        series |-> [i \in DOMAIN engines |->
                      LET d == rows_where(sub, "engine", engines[i])
                      IN [engine |-> engines[i],
                          points |-> {<<r.threads, r[metric]>> : r \in d.rows},
                          line |-> mean_line(d, metric)]]]

plot_summary_scatter(df, metric) ==
    LET wls == workloads_of(df)
    IN per_workload([i \in DOMAIN wls |-> summary_scatter_chart(df, metric, wls[i])], {})

summary_latency_breakdown_chart(df, wl) ==
    LET sub == partition(df, wl)
        engines == engines_of(sub)
        thread_vals == sorted(unique(sub, "threads"))
    IN [name |-> _save("summary_latency_breakdown_" \o wl),
        kind |-> "summary_latency_breakdown", workload |-> wl,
        panels |-> [i \in DOMAIN thread_vals |->
                      LET tsub == rows_where(sub, "threads", thread_vals[i])
                      IN [threads |-> thread_vals[i],
                          bars |-> {[engine |-> e,
                                     vals |-> [c \in DOMAIN lat_cols |->
                                                 first_row(rows_where(tsub, "engine", e))[lat_cols[c]]]] :
                                      e \in {e \in Range(engines) :
                                               rows_where(tsub, "engine", e).rows # {}}}]]]

\* Whether the loop over zip(axes, thread_vals) of workload wl raises
panels_raise(sub) ==
    LET thread_vals == sorted(unique(sub, "threads"))
    IN zip_raises(axes_list(subplots(Len(thread_vals)), thread_vals))

plot_summary_latency_breakdown(df) ==
    LET wls == workloads_of(df)
    IN per_workload([i \in DOMAIN wls |-> summary_latency_breakdown_chart(df, wls[i])],
                    {i \in DOMAIN wls : panels_raise(partition(df, wls[i]))})

\* The partition of the highest thread count instead of the lowest
highest_thread_rows(sub, thread_vals) ==
    rows_where(sub, "threads", thread_vals[Len(thread_vals)])

\* tsub = sub[sub["threads"] == thread_vals[0]]
lowest_thread_rows(sub, thread_vals) == rows_where(sub, "threads", thread_vals[1])

summary_data_size_chart(df, wl) ==
    LET sub == partition(df, wl)
        engines == engines_of(sub)
        thread_vals == sorted(unique(sub, "threads"))
        tsub == lowest_thread_rows(sub, thread_vals)
        vals(phase) == [i \in DOMAIN engines |->
                          LET esub == rows_where(tsub, "engine", engines[i])
                          IN IF esub.rows # {} THEN first_row(esub)[phase] ELSE 0]
    IN [name |-> _save("summary_datasize_" \o wl),
        kind |-> "summary_datasize", workload |-> wl,
        xticklabels |-> engines,
        after_prepare |-> vals("data_size_after_prepare_mb"),
        after_run |-> vals("data_size_after_run_mb")]

plot_summary_data_size(df) ==
    LET wls == workloads_of(df)
    IN per_workload([i \in DOMAIN wls |-> summary_data_size_chart(df, wls[i])], {})

disk_usage_bar_chart(df, wl) ==
    LET sub == partition(df, wl)
        engines == engines_of(sub)
    IN [name |-> _save("summary_disk_usage_bar_" \o wl),
        kind |-> "summary_disk_usage_bar", workload |-> wl,
        hue_order |-> engines,
        bars |-> barplot(sub, "data_size_after_run_mb", engines)]

plot_disk_usage_bar(df) ==
    LET wls == workloads_of(df)
    IN per_workload([i \in DOMAIN wls |-> disk_usage_bar_chart(df, wls[i])], {})

\* The derived column clamped at zero
disk_growth_mb_clamped(r) ==
    IF r.data_size_after_run_mb > r.data_size_after_prepare_mb
    THEN r.data_size_after_run_mb - r.data_size_after_prepare_mb ELSE 0

\* df["data_size_after_run_mb"] - df["data_size_after_prepare_mb"], one row's value
disk_growth_mb(r) == r.data_size_after_run_mb - r.data_size_after_prepare_mb

\* df["disk_growth_mb"] = ...: the frame with the derived column
with_disk_growth(df) ==
    [df EXCEPT !.cols = @ \cup {"disk_growth_mb"},
               !.rows = {r @@ [disk_growth_mb |-> disk_growth_mb(r)] : r \in @}]

\* The derived column assigned without df.copy(): the caller's table gets it
growth_line_frames_in_place(df) ==
    [caller |-> with_disk_growth(df), local |-> with_disk_growth(df)]

\* df = df.copy() and the assignment of the derived column: the table the
\* caller holds after the call, and the table the operation plots from
growth_line_frames(df) == [caller |-> df, local |-> with_disk_growth(df)]

disk_growth_line_chart(df, wl) ==
    LET sub == partition(df, wl)
        engines == engines_of(sub)
    IN [name |-> _save("summary_disk_growth_line_" \o wl),
        kind |-> "summary_disk_growth_line", workload |-> wl,
        lines |-> [i \in DOMAIN engines |->
                     LET d == rows_where(sub, "engine", engines[i])
                         idx == sorted(unique(d, "threads"))
                     IN [engine |-> engines[i],
                         points |-> [k \in DOMAIN idx |->
                                       <<idx[k], first_row(rows_where(d, "threads", idx[k])).disk_growth_mb>>]]]]

plot_disk_growth_line(df) ==
    LET local == growth_line_frames(df).local
        wls == workloads_of(local)
    IN per_workload([i \in DOMAIN wls |-> disk_growth_line_chart(local, wls[i])], {})

py_max(a, b) == IF a >= b THEN a ELSE b

\* The growth segment without max(..., 0)
stacked_segments_unclamped(row) ==
    IF row.rows = {} THEN [base |-> 0, growth |-> 0]
    ELSE [base |-> first_row(row).data_size_after_prepare_mb,
          growth |-> first_row(row).data_size_after_run_mb
                       - first_row(row).data_size_after_prepare_mb]

\* base_vals / growth_vals entry of one (engine, threads) pair
stacked_segments(row) ==
    IF row.rows = {} THEN [base |-> 0, growth |-> 0]
    ELSE LET prep == first_row(row).data_size_after_prepare_mb
             run == first_row(row).data_size_after_run_mb
         IN [base |-> prep, growth |-> py_max(run - prep, 0)]

disk_stacked_bar_chart(df, wl) ==
    LET sub == partition(df, wl)
        engines == engines_of(sub)
        thread_vals == sorted(unique(sub, "threads"))
    IN [name |-> _save("summary_disk_stacked_" \o wl),
        kind |-> "summary_disk_stacked", workload |-> wl,
        xticklabels |-> thread_vals,
        stacks |-> [i \in DOMAIN engines |->
                      [engine |-> engines[i],
                       segments |-> [k \in DOMAIN thread_vals |->
                                       stacked_segments(
                                           rows_where(rows_where(sub, "engine", engines[i]),
                                                 "threads", thread_vals[k]))]]]]

plot_disk_stacked_bar(df) ==
    LET wls == workloads_of(df)
    IN per_workload([i \in DOMAIN wls |-> disk_stacked_bar_chart(df, wls[i])], {})

(***************************************************************************)
(* Detail charts.                                                          *)
(***************************************************************************)
detail_panels(df, metric, wl, by_time) ==
    LET wl_df == rows_where(df, "workload", wl)
        thread_vals == sorted(unique(wl_df, "threads"))
    IN [i \in DOMAIN thread_vals |->
          LET tsub == rows_where(wl_df, "threads", thread_vals[i])
              engines == engines_of(tsub)
          IN [threads |-> thread_vals[i],
              series |-> [k \in DOMAIN engines |->
                            LET esub == rows_where(tsub, "engine", engines[k])
                                times == sorted(unique(esub, "time_s"))
                            IN [engine |-> engines[k],
                                samples |->
                                  IF by_time
                                  THEN [j \in DOMAIN times |->
                                          <<times[j], first_row(rows_where(esub, "time_s", times[j]))[metric]>>]
                                  ELSE {<<r.time_s, r[metric]>> : r \in esub.rows}]]]]

detail_timeseries_chart(df, metric, wl) ==
    [name |-> _save("detail_ts_" \o metric \o "_" \o wl),
     kind |-> "detail_ts", metric |-> metric, workload |-> wl,
     panels |-> detail_panels(df, metric, wl, TRUE)]

plot_detail_timeseries(df, metric) ==
    LET wls == workloads_of(df)
    IN per_workload([i \in DOMAIN wls |-> detail_timeseries_chart(df, metric, wls[i])],
                    {i \in DOMAIN wls : panels_raise(rows_where(df, "workload", wls[i]))})

detail_scatter_chart(df, metric, wl) ==
    [name |-> _save("detail_scatter_" \o metric \o "_" \o wl),
     kind |-> "detail_scatter", metric |-> metric, workload |-> wl,
     panels |-> detail_panels(df, metric, wl, FALSE)]

plot_detail_scatter(df, metric) ==
    LET wls == workloads_of(df)
    IN per_workload([i \in DOMAIN wls |-> detail_scatter_chart(df, metric, wls[i])],
                    {i \in DOMAIN wls : panels_raise(rows_where(df, "workload", wls[i]))})

(***************************************************************************)
(* The generators' decisions per metric.                                   *)
(***************************************************************************)
\* The loop over metrics without its all-zero skip
summary_metric_outcome_no_skip(df, metric) ==
    IF lookup_raises(df, metric) THEN "raise" ELSE "plot"

\* generate_summary_plots, one entry of metrics: df[metric].sum() == 0
summary_metric_outcome(df, metric) ==
    IF lookup_raises(df, metric) THEN "raise"
    ELSE IF column_sum(df, metric) = 0 THEN "skip"
    ELSE "plot"

\* The detail loop with the summary loop's test: no look at df.columns
detail_metric_outcome_no_guard(df, metric) ==
    IF lookup_raises(df, metric) THEN "raise"
    ELSE IF column_sum(df, metric) = 0 THEN "skip"
    ELSE "plot"

\* generate_detail_plots, one entry of metrics:
\* metric not in df.columns or df[metric].sum() == 0
detail_metric_outcome(df, metric) ==
    IF metric \notin df.cols THEN "skip"
    ELSE IF column_sum(df, metric) = 0 THEN "skip"
    ELSE "plot"

\* Two plot calls in a row: the second runs only if the first returned
then_plot(first, second) ==
    [charts |-> first.charts \o (IF first.raised THEN <<>> ELSE second.charts),
     raised |-> first.raised \/ second.raised]

\* The isfile loop running over the summary path alone
first_missing_summary_only(summary_is_file, detail_is_file) ==
    IF ~summary_is_file THEN "summary" ELSE "none"

\* for path in [args.summary, args.detail]: the first that is no file
first_missing(summary_is_file, detail_is_file) ==
    IF ~summary_is_file THEN "summary"
    ELSE IF ~detail_is_file THEN "detail"
    ELSE "none"

(***************************************************************************)
(* The state machine of main().                                            *)
(***************************************************************************)
Init ==
    /\ pc = "main"
    /\ summaryIsFile \in BOOLEAN
    /\ detailIsFile \in BOOLEAN
    /\ dirMade = FALSE
    /\ sumDf = NoDf
    /\ detDf = NoDf
    /\ mi = 1
    /\ files = {}
    /\ saves = 0
    /\ rendered = <<>>
    /\ stderr = <<>>
    /\ exitStatus = <<>>

\* An uncaught exception: traceback on stderr, exit status 1
Uncaught(error, place) ==
    /\ pc' = "exited"
    /\ exitStatus' = <<1>>
    /\ stderr' = Append(stderr, [error |-> error, in |-> place])

\* _save for every chart of an operation, then on to `next` unless it raised
Saved(result, place, next) ==
    /\ files' = files \cup {result.charts[i].name : i \in DOMAIN result.charts}
    /\ saves' = saves + Len(result.charts)
    /\ rendered' = result.charts
    /\ IF result.raised
       THEN Uncaught("TypeError", place)
       ELSE pc' = next /\ UNCHANGED <<stderr, exitStatus>>

\* main: the isfile loop; sys.exit(1) at the first path that is no file
CheckInputs ==
    /\ pc = "main"
    /\ LET missing == first_missing(summaryIsFile, detailIsFile)
       IN IF missing # "none"
          THEN /\ stderr' = Append(stderr, [error |-> "ERROR: File not found", in |-> missing])
               /\ exitStatus' = <<1>>
               /\ pc' = "exited"
          ELSE /\ pc' = "makedirs"
               /\ UNCHANGED <<stderr, exitStatus>>
    /\ UNCHANGED <<summaryIsFile, detailIsFile, dirMade, sumDf, detDf, mi, files,
                   saves, rendered>>

\* main: os.makedirs(args.outdir, exist_ok=True); _setup_style()
MakeDirs ==
    /\ pc = "makedirs"
    /\ dirMade' = TRUE
    /\ pc' = "load_summary"
    /\ UNCHANGED <<summaryIsFile, detailIsFile, sumDf, detDf, mi, files, saves,
                   rendered, stderr, exitStatus>>

\* generate_summary_plots: df = pd.read_csv(csv_path)
LoadSummary ==
    /\ pc = "load_summary"
    /\ \E df \in SummaryTables : sumDf' = df
    /\ mi' = 1
    /\ pc' = "summary_metrics"
    /\ UNCHANGED <<summaryIsFile, detailIsFile, dirMade, detDf, files, saves,
                   rendered, stderr, exitStatus>>

\* generate_summary_plots: one iteration of the loop over metrics
SummaryMetric ==
    /\ pc = "summary_metrics"
    /\ LET m == SummaryMetrics[mi]
           outcome == summary_metric_outcome(sumDf, m.metric)
           next == IF mi = Len(SummaryMetrics) THEN "latency_breakdown" ELSE pc
       IN CASE outcome = "raise" ->
                 /\ Uncaught("KeyError", m.metric)
                 /\ UNCHANGED <<mi, files, saves, rendered>>
            [] outcome = "skip" ->
                 /\ mi' = mi + 1
                 /\ pc' = next
                 /\ rendered' = <<>>
                 /\ UNCHANGED <<files, saves, stderr, exitStatus>>
            [] outcome = "plot" ->
                 /\ mi' = mi + 1
                 /\ Saved(then_plot(plot_summary_bar(sumDf, m.metric, m.log_scale),
                                    plot_summary_scatter(sumDf, m.metric)),
                          "generate_summary_plots", next)
    /\ UNCHANGED <<summaryIsFile, detailIsFile, dirMade, sumDf, detDf>>

PlotLatencyBreakdown ==
    /\ pc = "latency_breakdown"
    /\ Saved(plot_summary_latency_breakdown(sumDf), "plot_summary_latency_breakdown",
             "data_size")
    /\ UNCHANGED <<summaryIsFile, detailIsFile, dirMade, sumDf, detDf, mi>>

PlotDataSize ==
    /\ pc = "data_size"
    /\ Saved(plot_summary_data_size(sumDf), "plot_summary_data_size", "disk_usage_bar")
    /\ UNCHANGED <<summaryIsFile, detailIsFile, dirMade, sumDf, detDf, mi>>

PlotDiskUsageBar ==
    /\ pc = "disk_usage_bar"
    /\ Saved(plot_disk_usage_bar(sumDf), "plot_disk_usage_bar", "disk_growth_line")
    /\ UNCHANGED <<summaryIsFile, detailIsFile, dirMade, sumDf, detDf, mi>>

PlotDiskGrowthLine ==
    /\ pc = "disk_growth_line"
    /\ Saved(plot_disk_growth_line(sumDf), "plot_disk_growth_line", "disk_stacked_bar")
    /\ sumDf' = growth_line_frames(sumDf).caller
    /\ UNCHANGED <<summaryIsFile, detailIsFile, dirMade, detDf, mi>>

PlotDiskStackedBar ==
    /\ pc = "disk_stacked_bar"
    /\ Saved(plot_disk_stacked_bar(sumDf), "plot_disk_stacked_bar", "summary_return")
    /\ UNCHANGED <<summaryIsFile, detailIsFile, dirMade, sumDf, detDf, mi>>

\* generate_summary_plots returns: its df and its figures are gone
ReturnSummary ==
    /\ pc = "summary_return"
    /\ sumDf' = NoDf
    /\ rendered' = <<>>
    /\ mi' = 1
    /\ pc' = "load_detail"
    /\ UNCHANGED <<summaryIsFile, detailIsFile, dirMade, detDf, files, saves,
                   stderr, exitStatus>>

\* generate_detail_plots: df = pd.read_csv(csv_path)
LoadDetail ==
    /\ pc = "load_detail"
    /\ \E df \in DetailTables : detDf' = df
    /\ mi' = 1
    /\ pc' = "detail_metrics"
    /\ UNCHANGED <<summaryIsFile, detailIsFile, dirMade, sumDf, files, saves,
                   rendered, stderr, exitStatus>>

\* generate_detail_plots: one iteration of the loop over metrics
DetailMetric ==
    /\ pc = "detail_metrics"
    /\ LET m == DetailMetrics[mi]
           outcome == detail_metric_outcome(detDf, m.metric)
           next == IF mi = Len(DetailMetrics) THEN "finish" ELSE pc
       IN CASE outcome = "raise" ->
                 /\ Uncaught("KeyError", m.metric)
                 /\ UNCHANGED <<mi, files, saves, rendered>>
            [] outcome = "skip" ->
                 /\ mi' = mi + 1
                 /\ pc' = next
                 /\ rendered' = <<>>
                 /\ UNCHANGED <<files, saves, stderr, exitStatus>>
            [] outcome = "plot" ->
                 /\ mi' = mi + 1
                 /\ Saved(then_plot(plot_detail_timeseries(detDf, m.metric),
                                    plot_detail_scatter(detDf, m.metric)),
                          "generate_detail_plots", next)
    /\ UNCHANGED <<summaryIsFile, detailIsFile, dirMade, sumDf, detDf>>

\* generate_detail_plots returns; main prints "Done." and returns
Finish ==
    /\ pc = "finish"
    /\ detDf' = NoDf
    /\ rendered' = <<>>
    /\ exitStatus' = <<0>>
    /\ pc' = "exited"
    /\ UNCHANGED <<summaryIsFile, detailIsFile, dirMade, sumDf, mi, files, saves,
                   stderr>>

Next ==
    \/ CheckInputs
    \/ MakeDirs
    \/ LoadSummary
    \/ SummaryMetric
    \/ PlotLatencyBreakdown
    \/ PlotDataSize
    \/ PlotDiskUsageBar
    \/ PlotDiskGrowthLine
    \/ PlotDiskStackedBar
    \/ ReturnSummary
    \/ LoadDetail
    \/ DetailMetric
    \/ Finish

Spec == Init /\ [][Next]_vars

(***************************************************************************)
(* Properties.                                                             *)
(***************************************************************************)
Charts(kind) == {c \in Range(rendered) : c.kind = kind}
RowsOf(df, wl) == {r \in df.rows : r.workload = wl}
WorkloadsIn(df) == {r.workload : r \in df.rows}
Png(kind, metric, wl) == kind \o "_" \o metric \o "_" \o wl \o ".png"
PlainPng(kind, wl) == kind \o "_" \o wl \o ".png"
PlainSummaryKinds ==
    {"summary_latency_breakdown", "summary_datasize", "summary_disk_usage_bar",
     "summary_disk_growth_line", "summary_disk_stacked"}
InSummary ==
    pc \in {"summary_metrics", "latency_breakdown", "data_size", "disk_usage_bar",
            "disk_growth_line", "disk_stacked_bar", "summary_return"}
Processed == IF pc = "summary_metrics" THEN 1..(mi - 1) ELSE DOMAIN SummaryMetrics

\* C1: if the summary path or the detail path is no file, main() exits
\* with status 1 after one diagnostic on stderr that names the first missing
\* path, and it never creates the output directory, loads a table or saves a
\* chart: the run writes no file.
C1_MissingInputExitsFirst ==
    (~summaryIsFile \/ ~detailIsFile) =>
        /\ pc \in {"main", "exited"}
        /\ ~dirMade /\ ~sumDf.loaded /\ ~detDf.loaded
        /\ files = {} /\ saves = 0 /\ rendered = <<>>
        /\ pc = "exited" =>
              /\ exitStatus = <<1>>
              /\ Len(stderr) = 1
              /\ stderr[1].error = "ERROR: File not found"
              /\ stderr[1].in = (IF summaryIsFile THEN "detail" ELSE "summary")

\* The summary exists, only the detail is missing, and the run has exited.
C1_Witness == pc = "exited" /\ summaryIsFile /\ ~detailIsFile /\ exitStatus = <<1>>

\* C2: over a summary table that has all seven metric columns, once the
\* metrics loop has dealt with a metric, the bar file and the scatter file
\* of that metric exist for a workload exactly if the metric's sum over the
\* whole table is non-zero and the workload occurs in the table, each saved
\* once; metrics not yet dealt with have no file; and at the end of the
\* summary operations the five non-metric charts exist for every workload.
C2_ZeroSumMetricSkipped ==
    (InSummary /\ SummaryMetricNames \subseteq sumDf.cols) =>
        /\ \A i \in DOMAIN SummaryMetrics : \A wl \in Range(WorkloadNames) :
              LET m == SummaryMetrics[i].metric
                  written == /\ i \in Processed
                             /\ SumOver(sumDf.rows, m) # 0
                             /\ wl \in WorkloadsIn(sumDf)
              IN /\ Png("summary_bar", m, wl) \in files <=> written
                 /\ Png("summary_scatter", m, wl) \in files <=> written
        /\ pc \in {"summary_metrics", "latency_breakdown"} =>
              saves = 2 * Cardinality(WorkloadsIn(sumDf))
                        * Cardinality({i \in Processed :
                                         SumOver(sumDf.rows, SummaryMetrics[i].metric) # 0})
        /\ pc = "summary_return" =>
              \A k \in PlainSummaryKinds : \A wl \in WorkloadsIn(sumDf) :
                  PlainPng(k, wl) \in files

\* All summary operations ran over a table in which one metric sums to zero
\* and another does not: the first has no file, the second has its files.
C2_Witness ==
    /\ pc = "summary_return"
    /\ \E wl \in WorkloadsIn(sumDf) :
          /\ SumOver(sumDf.rows, "writes_per_sec") = 0
          /\ Png("summary_bar", "writes_per_sec", wl) \notin files
          /\ SumOver(sumDf.rows, "tps") # 0
          /\ Png("summary_bar", "tps", wl) \in files
          /\ Png("summary_scatter", "tps", wl) \in files
          /\ PlainPng("summary_disk_stacked", wl) \in files

\* C3 as stated: with both input files present the run never ends with an
\* error, whatever the tables hold (zero-sum metrics, absent metric columns
\* in either table, single-thread-count workloads): it exits with status 0.
C3_Original ==
    (summaryIsFile /\ detailIsFile /\ pc = "exited") => exitStatus = <<0>>

\* C3 amended: with both input files present, the only error the run can end
\* with is the KeyError that generate_summary_plots raises for one of its
\* seven metric columns absent from the summary table; zero-sum metrics,
\* single-thread-count workloads and metric columns absent from the detail
\* table raise nothing, and a run that gets past the summary metrics exits
\* with status 0.
C3_OnlySummaryColumnRaises ==
    (summaryIsFile /\ detailIsFile /\ pc = "exited") =>
        \/ exitStatus = <<0>> /\ stderr = <<>>
        \/ /\ exitStatus = <<1>>
           /\ Len(stderr) = 1
           /\ stderr[1].error = "KeyError"
           /\ sumDf.loaded
           /\ stderr[1].in \in SummaryMetricNames \ sumDf.cols

\* The detail loop is through a table that lacks a metric column, has a
\* zero-sum metric and a workload with a single thread count, and charts of
\* another metric were saved.
C3_Witness ==
    /\ pc = "finish"
    /\ detDf.loaded
    /\ "tps" \notin detDf.cols
    /\ SumOver(detDf.rows, "latency_p95_ms") = 0
    /\ \E wl \in WorkloadsIn(detDf) :
          /\ Cardinality({r.threads : r \in RowsOf(detDf, wl)}) = 1
          /\ Png("detail_ts", "latency_avg_ms", wl) \in files
    /\ stderr = <<>>

\* C4: the grouped-bar chart of workload W has exactly one bar for every
\* (threads, engine) pair that has a row in W's partition and no bar for any
\* other pair, whatever rows other workloads have.
C4_BarPerPairOfWorkload ==
    \A c \in Charts("summary_bar") :
        /\ \A r \in RowsOf(sumDf, c.workload) :
              Cardinality({b \in c.bars : b.threads = r.threads /\ b.engine = r.engine}) = 1
        /\ \A b \in c.bars :
              \E r \in RowsOf(sumDf, c.workload) :
                  r.threads = b.threads /\ r.engine = b.engine

\* A bar chart of one workload while another workload has a row for a
\* (threads, engine) pair the chart has no bar for.
C4_Witness ==
    \E c \in Charts("summary_bar") :
        /\ c.bars # {}
        /\ \E r \in sumDf.rows :
              /\ r.workload # c.workload
              /\ ~\E b \in c.bars : b.threads = r.threads /\ b.engine = r.engine

\* C5: the disk-growth line chart plots, for every row of the workload, the
\* point (threads, after_run - after_prepare), negative values included, and
\* nothing else; the stacked-bar chart is where the growth is clamped at 0.
C5_GrowthLineUnclamped ==
    /\ \A c \in Charts("summary_disk_growth_line") :
          UNION {{<<c.lines[i].engine, p[1], p[2]>> : p \in Range(c.lines[i].points)} :
                   i \in DOMAIN c.lines}
          = {<<r.engine, r.threads,
               r.data_size_after_run_mb - r.data_size_after_prepare_mb>> :
                r \in RowsOf(sumDf, c.workload)}
    /\ \A c \in Charts("summary_disk_stacked") :
          \A i \in DOMAIN c.stacks : \A k \in DOMAIN c.stacks[i].segments :
              c.stacks[i].segments[k].growth >= 0

\* The growth line chart was drawn with a negative growth value in it.
C5_Witness ==
    \E c \in Charts("summary_disk_growth_line") :
        \E i \in DOMAIN c.lines : \E k \in DOMAIN c.lines[i].points :
            c.lines[i].points[k][2] < 0

MetricKinds == {"summary_bar", "summary_scatter", "detail_ts", "detail_scatter"}
AllMetricNames == SummaryMetricNames \cup DetailMetricNames
NonZero(df, names) == {m \in names \cap df.cols : SumOver(df.rows, m) # 0}
SummaryFileNames(df) ==
    {Png(k, m, wl) : k \in {"summary_bar", "summary_scatter"},
                     m \in NonZero(df, SummaryMetricNames), wl \in WorkloadsIn(df)}
    \cup {PlainPng(k, wl) : k \in PlainSummaryKinds, wl \in WorkloadsIn(df)}
DetailFileNames(df) ==
    {Png(k, m, wl) : k \in {"detail_ts", "detail_scatter"},
                     m \in NonZero(df, DetailMetricNames), wl \in WorkloadsIn(df)}
AnySummaryFileName ==
    {Png(k, m, wl) : k \in {"summary_bar", "summary_scatter"},
                     m \in SummaryMetricNames, wl \in Range(WorkloadNames)}
    \cup {PlainPng(k, wl) : k \in PlainSummaryKinds, wl \in Range(WorkloadNames)}

WellFormedNames ==
    {Png(k, m, wl) : k \in MetricKinds, m \in AllMetricNames, wl \in Range(WorkloadNames)}
    \cup {PlainPng(k, wl) : k \in PlainSummaryKinds, wl \in Range(WorkloadNames)}

\* C6: every file name has the form <kind>_<metric>_<workload>.png or
\* <kind>_<workload>.png; no two charts of a run are saved under one name
\* (every savefig call made a new file); and the set of names is the function
\* of the tables given above: after the summary operations it is
\* SummaryFileNames of the summary table, and after the detail operations the
\* names added are DetailFileNames of the detail table.
C6_FileNamesDeterminedByTables ==
    /\ files \subseteq WellFormedNames
    /\ saves = Cardinality(files)
    /\ pc = "summary_return" => files = SummaryFileNames(sumDf)
    /\ pc = "finish" =>
          /\ files \ AnySummaryFileName = DetailFileNames(detDf)
          /\ DetailFileNames(detDf) \cap AnySummaryFileName = {}

\* Both generators are through and files of both are on disk.
C6_Witness ==
    /\ pc = "finish"
    /\ DetailFileNames(detDf) # {}
    /\ files \cap AnySummaryFileName # {}
    /\ Cardinality(files) > Cardinality(DetailFileNames(detDf)) + 6

\* C7: the y-axis of the grouped-bar chart of a workload is logarithmic
\* exactly if the metric is tps, qps, reads_per_sec or writes_per_sec and,
\* over the workload's rows, max(metric) > 100 * max(min(metric), 1); a
\* ratio of exactly 100 and the latency metrics leave it linear.
C7_LogScaleAbove100 ==
    \A c \in Charts("summary_bar") :
        LET vals == {r[c.metric] : r \in RowsOf(sumDf, c.workload)}
            hi == CHOOSE x \in vals : \A y \in vals : y <= x
            lo == CHOOSE x \in vals : \A y \in vals : x <= y
            floor == IF lo >= 1 THEN lo ELSE 1
        IN /\ c.yscale \in {"log", "linear"}
           /\ c.yscale = "log" <=>
                 /\ c.metric \in {"tps", "qps", "reads_per_sec", "writes_per_sec"}
                 /\ hi > 100 * floor

\* A tps bar chart over rows whose ratio is above 100 was drawn logarithmic.
C7_Witness ==
    \E c \in Charts("summary_bar") :
        /\ c.metric = "tps"
        /\ c.yscale = "log"
        /\ {r.tps : r \in RowsOf(sumDf, c.workload)} = {1, 101}

\* C8: in the stacked-bar chart of a workload, for every engine and every
\* thread count of the workload, the pair's base segment is after_prepare and
\* its top segment max(after_run - after_prepare, 0) when the pair has a row
\* (so the bar reaches max(after_run, after_prepare), never below the base),
\* and both segments are 0 when the pair has no row.
C8_StackedSegments ==
    \A c \in Charts("summary_disk_stacked") :
        LET rows == RowsOf(sumDf, c.workload) IN
        /\ Range(c.xticklabels) = {r.threads : r \in rows}
        /\ {c.stacks[i].engine : i \in DOMAIN c.stacks} = {r.engine : r \in rows}
        /\ \A i \in DOMAIN c.stacks :
              /\ DOMAIN c.stacks[i].segments = DOMAIN c.xticklabels
              /\ \A k \in DOMAIN c.xticklabels :
                    LET seg == c.stacks[i].segments[k]
                        pair == {r \in rows : /\ r.engine = c.stacks[i].engine
                                              /\ r.threads = c.xticklabels[k]}
                    IN IF pair = {}
                       THEN seg.base = 0 /\ seg.growth = 0
                       ELSE \A r \in pair :
                              LET prep == r.data_size_after_prepare_mb
                                  run == r.data_size_after_run_mb
                              IN /\ seg.base = prep
                                 /\ seg.growth = (IF run - prep > 0 THEN run - prep ELSE 0)
                                 /\ seg.base + seg.growth = (IF run > prep THEN run ELSE prep)
                                 /\ seg.base + seg.growth >= seg.base

\* A stacked chart with a pair that has no row and a pair whose data shrank.
C8_Witness ==
    \E c \in Charts("summary_disk_stacked") :
        /\ \E i \in DOMAIN c.stacks, k \in DOMAIN c.xticklabels :
              ~\E r \in RowsOf(sumDf, c.workload) :
                  r.engine = c.stacks[i].engine /\ r.threads = c.xticklabels[k]
        /\ \E r \in RowsOf(sumDf, c.workload) :
              r.data_size_after_run_mb < r.data_size_after_prepare_mb

LowestThreads(rows) == CHOOSE t \in {r.threads : r \in rows} : \A r \in rows : t <= r.threads

\* C9 as stated: for each engine shown in the data-size chart of a workload,
\* the plotted values are those of the engine's row at the smallest thread
\* count of the workload, so no row at a higher thread count has any effect.
C9_Original ==
    \A c \in Charts("summary_datasize") :
        LET rows == RowsOf(sumDf, c.workload) IN
        \A i \in DOMAIN c.xticklabels :
            \E r \in rows :
                /\ r.engine = c.xticklabels[i]
                /\ r.threads = LowestThreads(rows)
                /\ c.after_prepare[i] = r.data_size_after_prepare_mb
                /\ c.after_run[i] = r.data_size_after_run_mb

\* C9 amended: the data-size chart of a workload shows every engine that has
\* a row in the workload, at any thread count; for an engine with a row at
\* the smallest thread count of the workload the two values are those of that
\* row, and for an engine with rows only at higher thread counts both values
\* are 0: no value of a row at a higher thread count is plotted.
C9_DataSizeFromLowestThreads ==
    \A c \in Charts("summary_datasize") :
        LET rows == RowsOf(sumDf, c.workload) IN
        /\ Range(c.xticklabels) = {r.engine : r \in rows}
        /\ DOMAIN c.after_prepare = DOMAIN c.xticklabels
        /\ DOMAIN c.after_run = DOMAIN c.xticklabels
        /\ \A i \in DOMAIN c.xticklabels :
              LET low == {r \in rows : /\ r.engine = c.xticklabels[i]
                                       /\ r.threads = LowestThreads(rows)}
              IN IF low = {}
                 THEN c.after_prepare[i] = 0 /\ c.after_run[i] = 0
                 ELSE \A r \in low :
                        /\ c.after_prepare[i] = r.data_size_after_prepare_mb
                        /\ c.after_run[i] = r.data_size_after_run_mb

\* A data-size chart of a workload with two thread counts: one engine has
\* its row at the smallest, the other only at the higher one.
C9_Witness ==
    \E c \in Charts("summary_datasize") :
        LET rows == RowsOf(sumDf, c.workload) IN
        /\ \E r \in rows : r.threads > LowestThreads(rows)
        /\ \E i \in DOMAIN c.xticklabels :
              ~\E r \in rows : r.engine = c.xticklabels[i] /\ r.threads = LowestThreads(rows)
        /\ \E i \in DOMAIN c.xticklabels : c.after_run[i] # 0

\* C10: no step changes a loaded table: while generate_summary_plots holds
\* its table, and while generate_detail_plots holds its table, every chart
\* operation leaves the rows, the columns and the values as they were read.
C10_TablesNotMutated ==
    [][/\ (sumDf.loaded /\ sumDf'.loaded) => sumDf' = sumDf
       /\ (detDf.loaded /\ detDf'.loaded) => detDf' = detDf]_vars

\* The disk-growth line chart was drawn from its derived column and the
\* table of the generator has no such column.
C10_Witness ==
    /\ pc = "disk_stacked_bar"
    /\ Charts("summary_disk_growth_line") # {}
    /\ sumDf.loaded
    /\ sumDf.rows # {}
    /\ "disk_growth_mb" \notin sumDf.cols
    /\ \A r \in sumDf.rows : "disk_growth_mb" \notin DOMAIN r

====
